---- MODULE Spec2Model ----
(***************************************************************************)
(* Model of lvm_visualizer.py: the pvdisplay text parser                   *)
(* (LVMAnalyzer.parse_pvdisplay), the colour assigner, the summary         *)
(* reporter, the two overview renderers and the two entry points           *)
(* analyze_from_file / run_live_analysis.                                  *)
(*                                                                         *)
(* Text is modelled at character level: a line is a TLA+ string, and       *)
(* strip, split, startswith, substring search, the two regular             *)
(* expressions, int() and float() are computed on its characters.          *)
(* Floating-point megabyte values are kept as exact integers in units of   *)
(* 1/Scale MB (two decimals).                                              *)
(***************************************************************************)
EXTENDS Integers, Sequences, FiniteSets, TLC

(***************************************************************************)
(* Bounds of the model.                                                    *)
(***************************************************************************)
\* Largest number of lines of the stripped input text.
MaxLines == 6
\* Largest number of filler logical-volume names in a directly drawn model.
MaxFill == 16

\* Resolution of sizes: values are integers in 1/Scale MB.
Scale == 100

(***************************************************************************)
(* Characters and strings.                                                 *)
(***************************************************************************)
Ch(s, k) == SubSeq(s, k, k)

\* str.strip() and str.split() with no argument treat these as whitespace.
IsSpace(c) == c \in {" ", "\t", "\n", "\r"}

Digits == "0123456789"

IsDigit(c) == \E k \in 1..10 : Ch(Digits, k) = c

DigitVal(c) == (CHOOSE k \in 1..10 : Ch(Digits, k) = c) - 1

\* The characters of the model's texts in code-point order (Python compares
\* strings by code point).
Alphabet == "\t\n\r #-./0123456789ABCDEFGHIJKLMNOPQRSTUVWXYZ_abcdefghijklmnopqrstuvwxyz"

Ord(c) == CHOOSE k \in 1..Len(Alphabet) : Ch(Alphabet, k) = c

RECURSIVE StrLess(_, _)
\* a < b for Python strings: lexicographic by code point, a proper prefix first.
StrLess(a, b) ==
    IF b = "" THEN FALSE
    ELSE IF a = "" THEN TRUE
    ELSE IF Ch(a, 1) = Ch(b, 1)
         THEN StrLess(SubSeq(a, 2, Len(a)), SubSeq(b, 2, Len(b)))
         ELSE Ord(Ch(a, 1)) < Ord(Ch(b, 1))

RECURSIVE LStrip(_)
LStrip(s) == IF s # "" /\ IsSpace(Ch(s, 1)) THEN LStrip(SubSeq(s, 2, Len(s))) ELSE s

RECURSIVE RStrip(_)
RStrip(s) == IF s # "" /\ IsSpace(Ch(s, Len(s))) THEN RStrip(SubSeq(s, 1, Len(s) - 1)) ELSE s

\* str.strip()
Strip(s) == RStrip(LStrip(s))

\* str.startswith(p)
StartsWith(s, p) == Len(s) >= Len(p) /\ SubSeq(s, 1, Len(p)) = p

\* p in s
Contains(s, p) == \E k \in 1..(Len(s) - Len(p) + 1) : SubSeq(s, k, k + Len(p) - 1) = p

\* Length of the first whitespace-free run of s (s starts with a non-space).
RECURSIVE TokenLen(_)
TokenLen(s) == IF s = "" \/ IsSpace(Ch(s, 1)) THEN 0 ELSE 1 + TokenLen(SubSeq(s, 2, Len(s)))

RECURSIVE Split(_)
\* str.split(): the maximal whitespace-free runs, in order; no empty token.
Split(s) ==
    LET t == LStrip(s) IN
    IF t = "" THEN << >>
    ELSE LET n == TokenLen(t) IN <<SubSeq(t, 1, n)>> \o Split(SubSeq(t, n + 1, Len(t)))

RECURSIVE LastComponent(_)
\* s.split('/')[-1]: what follows the last '/', the whole of s when it has none.
LastComponent(s) ==
    IF \E k \in 1..Len(s) : Ch(s, k) = "/"
    THEN LET k == CHOOSE j \in 1..Len(s) : Ch(s, j) = "/" /\ \A m \in (j + 1)..Len(s) : Ch(s, m) # "/"
         IN SubSeq(s, k + 1, Len(s))
    ELSE s

\* Length of the maximal run of digits at the start of s.
RECURSIVE DigitRun(_)
DigitRun(s) == IF s = "" \/ ~IsDigit(Ch(s, 1)) THEN 0 ELSE 1 + DigitRun(SubSeq(s, 2, Len(s)))

RECURSIVE DecValue(_)
\* The value of a string of decimal digits (0 for the empty string).
DecValue(s) == IF s = "" THEN 0 ELSE 10 * DecValue(SubSeq(s, 1, Len(s) - 1)) + DigitVal(Ch(s, Len(s)))

(***************************************************************************)
(* Conversions used by the parser.                                         *)
(***************************************************************************)
\* Start of the leftmost match of r'(\d+\.?\d*)' in s: its first digit (0: no match).
FirstDigit(s) ==
    IF \E k \in 1..Len(s) : IsDigit(Ch(s, k))
    THEN CHOOSE k \in 1..Len(s) : IsDigit(Ch(s, k)) /\ \A j \in 1..(k - 1) : ~IsDigit(Ch(s, j))
    ELSE 0

\* float(m.group(1)) for the match of r'(\d+\.?\d*)' starting at k, in 1/Scale:
\* the greedy digit run, an optional '.', the greedy digit run after it.  The
\* fraction is kept to two decimals.
FloatAt(s, k) ==
    LET rest  == SubSeq(s, k, Len(s))
        n1    == DigitRun(rest)
        after == SubSeq(rest, n1 + 1, Len(rest))
        frac  == IF after # "" /\ Ch(after, 1) = "."
                 THEN SubSeq(after, 2, 1 + DigitRun(SubSeq(after, 2, Len(after))))
                 ELSE ""
        f2    == SubSeq(frac \o "00", 1, 2)
    IN DecValue(SubSeq(rest, 1, n1)) * Scale + DecValue(f2)

\* re.search(r'Physical extent (\d+) to (\d+)', s) matches at position k.
ExtentAt(s, k) ==
    LET p    == "Physical extent "
        rest == SubSeq(s, k + Len(p), Len(s))
        n1   == DigitRun(rest)
        mid  == SubSeq(rest, n1 + 1, Len(rest))
    IN /\ StartsWith(SubSeq(s, k, Len(s)), p)
       /\ n1 >= 1
       /\ StartsWith(mid, " to ")
       /\ DigitRun(SubSeq(mid, 5, Len(mid))) >= 1

\* The leftmost position at which the extent pattern matches (0: no match).
ExtentPos(s) ==
    IF \E k \in 1..Len(s) : ExtentAt(s, k)
    THEN CHOOSE k \in 1..Len(s) : ExtentAt(s, k) /\ \A j \in 1..(k - 1) : ~ExtentAt(s, j)
    ELSE 0

\* int(group(1)), int(group(2)) of the match at ExtentPos(s).
ExtentRange(s) ==
    LET rest == SubSeq(s, ExtentPos(s) + 16, Len(s))
        n1   == DigitRun(rest)
        mid  == SubSeq(rest, n1 + 5, Len(rest))
    IN [start |-> DecValue(SubSeq(rest, 1, n1)),
        end   |-> DecValue(SubSeq(mid, 1, DigitRun(mid)))]

RECURSIVE IsIntBody(_)
\* Digits, single underscores allowed between digits.
IsIntBody(s) ==
    /\ s # ""
    /\ IsDigit(Ch(s, 1))
    /\ \/ Len(s) = 1
       \/ IF Ch(s, 2) = "_" THEN IsIntBody(SubSeq(s, 3, Len(s))) ELSE IsIntBody(SubSeq(s, 2, Len(s)))

HasSign(t) == t # "" /\ Ch(t, 1) \in {"+", "-"}

\* int(t) succeeds (otherwise it raises ValueError); t holds no whitespace.
IsInt(t) == IsIntBody(IF HasSign(t) THEN SubSeq(t, 2, Len(t)) ELSE t)

RECURSIVE DropUnderscores(_)
DropUnderscores(s) ==
    IF s = "" THEN ""
    ELSE (IF Ch(s, 1) = "_" THEN "" ELSE Ch(s, 1)) \o DropUnderscores(SubSeq(s, 2, Len(s)))

\* int(t) for a t with IsInt(t).
IntValue(t) ==
    LET body == DropUnderscores(IF HasSign(t) THEN SubSeq(t, 2, Len(t)) ELSE t)
    IN IF t # "" /\ Ch(t, 1) = "-" THEN 0 - DecValue(body) ELSE DecValue(body)

(***************************************************************************)
(* Sequences, sets and maps.                                               *)
(***************************************************************************)
\* The least string of a non-empty set.
MinStr(S) == CHOOSE x \in S : \A y \in S \ {x} : StrLess(x, y)

RECURSIVE Sorted(_)
\* sorted(S) for a set (or the keys of a dict) of strings: ascending.
Sorted(S) == IF S = {} THEN << >> ELSE <<MinStr(S)>> \o Sorted(S \ {MinStr(S)})

\* reversed(q)
Reversed(q) == [k \in 1..Len(q) |-> q[Len(q) + 1 - k]]

\* d[k] = v on a dict d (a function on its keys).
Put(d, k, v) == [x \in DOMAIN d \cup {k} |-> IF x = k THEN v ELSE d[x]]

\* The empty dict.
EmptyDict == [x \in {} |-> 0]

RECURSIVE SumSizes(_)
\* sum(s['size'] for s in segs)
SumSizes(segs) == IF segs = << >> THEN 0 ELSE Head(segs).size + SumSizes(Tail(segs))

(***************************************************************************)
(* The program's state.                                                    *)
(***************************************************************************)
VARIABLES
    pc,            \* where the entry point stands: "start", "parse", "scan",
                   \* "summary", "render", "handler", "done"
    mode,          \* "file": analyze_from_file, "live": run_live_analysis
    i,             \* the scan index (0-based)
    line,          \* lines[i] (unstripped), EOF when i = len(lines)
    next_line,     \* lines[i + 1] (unstripped), EOF when i + 1 >= len(lines)
    pvs,           \* the model being built: PV name -> record
    current_pv,    \* the current PV name, None before the first
    in_segments,   \* a '--- Physical Segments ---' line was seen for it
    exc,           \* class of the exception raised in this run, "None" if none
    exc_at,        \* the step that raised it
    summary,       \* what print_summary printed
    lv_colors,     \* LVMAnalyzer.lv_colors
    image_bars,    \* the ax.bar calls of plot_pv_overview, in order
    overview_data, \* overview_data of create_html_visualization
    segments_data, \* the rows of the segments-detail chart, bottom row first
    artifact,      \* the file written: "none", "png", "html"
    reports        \* the error categories printed by the except clauses

vars == <<pc, mode, i, line, next_line, pvs, current_pv, in_segments,
          exc, exc_at, summary, lv_colors, image_bars, overview_data, segments_data,
          artifact, reports>>

scanVars == <<i, line, next_line, pvs, current_pv, in_segments>>
outVars == <<summary, lv_colors, image_bars, overview_data, segments_data, artifact>>

\* None for current_pv.  split() never yields an empty token, and the code only
\* tests current_pv for truth, so the empty string stands for None.
None == ""

\* LVMAnalyzer.color_palette
color_palette == << "#FF6B6B", "#4ECDC4", "#45B7D1", "#96CEB4", "#FFEAA7",
                    "#DDA0DD", "#98D8C8", "#F7DC6F", "#BB8FCE", "#85C1E9",
                    "#F8C471", "#82E0AA", "#F1948A", "#85C1E9", "#D7BDE2" >>

\* The colour of free space.
FreeColor == "#E8E8E8"

\* Default PE size 4.19 MB, in 1/Scale MB.
DefaultPeSize == 419

\* The record a 'PV Name' line creates.
NewPV == [vg |-> "", size |-> 0, free_pe |-> 0, total_pe |-> 0,
          pe_size |-> DefaultPeSize, segments |-> << >>]

\* The empty summary.
NoSummary == [rows |-> << >>, totals |-> << >>, complete |-> FALSE]

(***************************************************************************)
(* The input text.  Lines of pvdisplay output the scan can meet, well      *)
(* formed and malformed.                                                   *)
(***************************************************************************)
Catalog == { "PV Name /dev/sda",
             "  PV Name\t/dev/sdb",
             "PV Name",
             "VG Name vg0",
             "PV Size 16.76 MB",
             "PE Size 4.00 MB",
             "Free PE x",
             "Total PE 4",
             "--- Physical Segments ---",
             "Physical extent 0 to 1",
             "Physical extent 2 to 3",
             "Logical volume /dev/vg0/lv-root",
             "Logical volume /dev/vg0/Data",
             "Logical volume",
             "FREE",
             "" }

\* What the window holds past the end of the buffer.  A line of
\* split('\n') holds no newline, so no line equals it.
EOF == "\n"

\* lines = pvdisplay_content.strip().split('\n'): after strip() the text is
\* empty (lines = ['']) or starts and ends with a non-space character, so the
\* first line starts with one and the last line ends with one.
CanBeFirst(l) == l = "" \/ ~IsSpace(Ch(l, 1))

CanBeLast(l) == l # "" /\ ~IsSpace(Ch(l, Len(l)))

\* The values lines[0] can have.
FirstLines == {l \in Catalog : CanBeFirst(l)}

\* The values lines[k] can have when lines[k - 1] = prev (k >= 1): the end of
\* the buffer, or one more line while the text stays within MaxLines lines.
LinesAfter(k, prev) ==
    IF prev = EOF \/ (k = 1 /\ prev = "") THEN {EOF}
    ELSE {EOF : x \in {1} \cap (IF CanBeLast(prev) THEN {1} ELSE {})}
         \cup {l \in Catalog : k < MaxLines /\ (k = MaxLines - 1 => CanBeLast(l))}

(***************************************************************************)
(* The entry points: construction and reading the input.                   *)
(***************************************************************************)
Init ==
    /\ pc = "start"
    /\ mode \in {"file", "live"}
    /\ i = 0 /\ line = EOF /\ next_line = EOF
    /\ pvs = EmptyDict
    /\ current_pv = None
    /\ in_segments = FALSE
    /\ exc = "None" /\ exc_at = "none"
    /\ summary = NoSummary
    /\ lv_colors = EmptyDict
    /\ image_bars = << >>
    /\ overview_data = << >>
    /\ segments_data = << >>
    /\ artifact = "none"
    /\ reports = << >>

\* An exception of class e leaves the try block at step `at`.
Raise(e, at) ==
    /\ pc' = "handler"
    /\ exc' = e
    /\ exc_at' = at

\* What open()/read() can raise.
ReadErrors == {"FileNotFoundError", "PermissionError"}

\* What subprocess.run(..., check=True) can raise.
RunErrors == {"CalledProcessError", "FileNotFoundError", "PermissionError"}

\* analyze_from_file: open(file_path).read() succeeds.
ReadFile ==
    /\ pc = "start" /\ mode = "file"
    /\ pc' = "parse"
    /\ UNCHANGED <<mode, scanVars, exc, exc_at, outVars, reports>>

\* analyze_from_file: open(file_path) or read() raises.
ReadFileFails ==
    /\ pc = "start" /\ mode = "file"
    /\ \E e \in ReadErrors : Raise(e, "read")
    /\ UNCHANGED <<mode, scanVars, outVars, reports>>

\* run_live_analysis: the pvdisplay command runs and exits with status 0.
RunCommand ==
    /\ pc = "start" /\ mode = "live"
    /\ pc' = "parse"
    /\ UNCHANGED <<mode, scanVars, exc, exc_at, outVars, reports>>

\* run_live_analysis: the command exits non-zero or cannot be started.
RunCommandFails ==
    /\ pc = "start" /\ mode = "live"
    /\ \E e \in RunErrors : Raise(e, "read")
    /\ UNCHANGED <<mode, scanVars, outVars, reports>>

(***************************************************************************)
(* parse_pvdisplay.  The line buffer is revealed as the scan reads it: the *)
(* state holds lines[i] and the looked-at lines[i + 1]; i < len(lines) is  *)
(* line # EOF and i + 1 < len(lines) is next_line # EOF.                   *)
(***************************************************************************)
\* Lines 28-33: the locals, the line buffer, i = 0.
ParseBegin ==
    /\ pc = "parse"
    /\ \E l0 \in FirstLines : \E l1 \in LinesAfter(1, l0) :
          /\ line' = l0
          /\ next_line' = l1
    /\ i' = 0
    /\ pvs' = EmptyDict
    /\ current_pv' = None
    /\ in_segments' = FALSE
    /\ pc' = "scan"
    /\ UNCHANGED <<mode, exc, exc_at, outVars, reports>>

\* The branch of the if/elif chain taken for the stripped line s.
Branch(s, cur, inseg) ==
    IF StartsWith(s, "PV Name") THEN "pv_name"
    ELSE IF StartsWith(s, "VG Name") /\ cur # None THEN "vg_name"
    ELSE IF StartsWith(s, "PV Size") /\ cur # None THEN "pv_size"
    ELSE IF StartsWith(s, "PE Size") /\ cur # None THEN "pe_size"
    ELSE IF StartsWith(s, "Free PE") /\ cur # None THEN "free_pe"
    ELSE IF StartsWith(s, "Total PE") /\ cur # None THEN "total_pe"
    ELSE IF StartsWith(s, "--- Physical Segments ---") THEN "marker"
    ELSE IF inseg /\ Contains(s, "Physical extent") /\ cur # None THEN "extent"
    ELSE "skip"

\* The scan stands at a line taking branch b.
AtBranch(b) ==
    /\ pc = "scan"
    /\ line # EOF
    /\ Branch(Strip(line), current_pv, in_segments) = b

\* i += 1: the looked-at line becomes the current one.
Advance ==
    /\ i' = i + 1
    /\ line' = next_line
    /\ \E l \in LinesAfter(i + 2, next_line) : next_line' = l
    /\ UNCHANGED <<pc, mode, exc, exc_at, outVars, reports>>

\* An exception leaves parse_pvdisplay.
ParseRaises(e) ==
    /\ Raise(e, "parse")
    /\ UNCHANGED <<mode, scanVars, outVars, reports>>

\* pvs[current_pv][field] = value
SetField(field, value) ==
    pvs' = [pvs EXCEPT ![current_pv] = [pvs[current_pv] EXCEPT ![field] = value]]

\* Lines 37-47.
PVNameLine ==
    /\ AtBranch("pv_name")
    /\ LET tok == Split(Strip(line)) IN
       IF Len(tok) < 3 THEN ParseRaises("IndexError")
       ELSE /\ current_pv' = tok[3]
            /\ pvs' = Put(pvs, tok[3], NewPV)
            /\ in_segments' = FALSE
            /\ Advance

\* Lines 48-49.
VGNameLine ==
    /\ AtBranch("vg_name")
    /\ LET tok == Split(Strip(line)) IN
       IF Len(tok) < 3 THEN ParseRaises("IndexError")
       ELSE /\ SetField("vg", tok[3])
            /\ UNCHANGED <<current_pv, in_segments>>
            /\ Advance

\* Lines 50-53.
PVSizeLine ==
    /\ AtBranch("pv_size")
    /\ LET s == Strip(line) IN
       IF FirstDigit(s) # 0
       THEN SetField("size", FloatAt(s, FirstDigit(s)))
       ELSE UNCHANGED pvs
    /\ UNCHANGED <<current_pv, in_segments>>
    /\ Advance

\* Lines 54-57.
PESizeLine ==
    /\ AtBranch("pe_size")
    /\ LET s == Strip(line) IN
       IF FirstDigit(s) # 0
       THEN SetField("pe_size", FloatAt(s, FirstDigit(s)))
       ELSE UNCHANGED pvs
    /\ UNCHANGED <<current_pv, in_segments>>
    /\ Advance

\* Lines 58-61: pvs[current_pv][field] = int(line.split()[2]).
CountLine(field) ==
    LET tok == Split(Strip(line)) IN
    IF Len(tok) < 3 THEN ParseRaises("IndexError")
    ELSE IF ~IsInt(tok[3]) THEN ParseRaises("ValueError")
    ELSE /\ SetField(field, IntValue(tok[3]))
         /\ UNCHANGED <<current_pv, in_segments>>
         /\ Advance

\* Lines 58-59.
FreePELine == AtBranch("free_pe") /\ CountLine("free_pe")

\* Lines 60-61.
TotalPELine == AtBranch("total_pe") /\ CountLine("total_pe")

\* Lines 62-63.
MarkerLine ==
    /\ AtBranch("marker")
    /\ in_segments' = TRUE
    /\ UNCHANGED <<pvs, current_pv>>
    /\ Advance

\* OwnerTag with the path prefix left on the logical-volume name.
OwnerTagKeepsPath(has_next, nxt) ==
    IF has_next
    THEN IF Contains(nxt, "FREE") THEN "FREE"
         ELSE IF Contains(nxt, "Logical volume") THEN Split(nxt)[3]
         ELSE "UNKNOWN"
    ELSE "FREE"

\* OwnerTag giving 'UNKNOWN' to a range line with no line after it.
OwnerTagUnknownAtEnd(has_next, nxt) ==
    IF has_next
    THEN IF Contains(nxt, "FREE") THEN "FREE"
         ELSE IF Contains(nxt, "Logical volume") THEN LastComponent(Split(nxt)[3])
         ELSE "UNKNOWN"
    ELSE "UNKNOWN"

\* Lines 71-80 once the owner line can be split: the tag of the segment.
\* has_next is i + 1 < len(lines), nxt the stripped following line.
OwnerTag(has_next, nxt) ==
    IF has_next
    THEN IF Contains(nxt, "FREE") THEN "FREE"
         ELSE IF Contains(nxt, "Logical volume") THEN LastComponent(Split(nxt)[3])
         ELSE "UNKNOWN"
    ELSE "FREE"

\* next_line.split()[2] raises IndexError.
OwnerRaises(has_next, nxt) ==
    /\ has_next
    /\ ~Contains(nxt, "FREE")
    /\ Contains(nxt, "Logical volume")
    /\ Len(Split(nxt)) < 3

\* Segment sized with the default PE size whatever the PV's pe_size is.
SegmentDefaultPe(r, lv, pe_size) ==
    [start |-> r.start, end |-> r.end, lv |-> lv,
     size |-> (r.end - r.start + 1) * DefaultPeSize]

\* Segment storing its end as an exclusive bound.
SegmentEndExclusive(r, lv, pe_size) ==
    [start |-> r.start, end |-> r.end + 1, lv |-> lv,
     size |-> (r.end - r.start + 1) * pe_size]

\* Lines 82-88: the segment appended for the range r with tag lv.
Segment(r, lv, pe_size) ==
    [start |-> r.start, end |-> r.end, lv |-> lv,
     size |-> (r.end - r.start + 1) * pe_size]

\* Lines 64-88.
ExtentLine ==
    /\ AtBranch("extent")
    /\ LET s == Strip(line)
           nxt == Strip(next_line)
       IN IF ExtentPos(s) = 0
          THEN UNCHANGED <<pvs, current_pv, in_segments>> /\ Advance
          ELSE IF OwnerRaises(next_line # EOF, nxt) THEN ParseRaises("IndexError")
          ELSE /\ SetField("segments",
                           Append(pvs[current_pv].segments,
                                  Segment(ExtentRange(s), OwnerTag(next_line # EOF, nxt),
                                          pvs[current_pv].pe_size)))
               /\ UNCHANGED <<current_pv, in_segments>>
               /\ Advance

\* No branch of the chain matches: the line is skipped.
SkipLine ==
    /\ AtBranch("skip")
    /\ UNCHANGED <<pvs, current_pv, in_segments>>
    /\ Advance

\* Line 91: the loop is over, the model is returned.
ParseReturn ==
    /\ pc = "scan"
    /\ line = EOF
    /\ pc' = "summary"
    /\ UNCHANGED <<mode, scanVars, exc, exc_at, outVars, reports>>

(***************************************************************************)
(* print_summary.                                                          *)
(***************************************************************************)
IsUsed(seg) == seg.lv # "FREE"

IsFree(seg) == seg.lv = "FREE"

IsNamed(seg) == seg.lv \notin {"FREE", "UNKNOWN"}

\* UsedSize counting only the segments of a named logical volume.
UsedSizeNamedOnly(segs) == SumSizes(SelectSeq(segs, IsNamed))

\* Line 635.
UsedSize(segs) == SumSizes(SelectSeq(segs, IsUsed))

\* Line 636.
FreeSize(segs) == SumSizes(SelectSeq(segs, IsFree))

\* used_size / pv_data['size'] and total_used / total_size: Python raises
\* ZeroDivisionError on a zero divisor, integer or float.
DivRaises(divisor) == divisor = 0

RECURSIVE SummaryLoop(_, _, _, _)
\* Lines 630-656 over the PV names still to visit: the rows printed, the
\* running totals, and whether line 640 raised.
SummaryLoop(m, names, rows, tot) ==
    IF names = << >> THEN [rows |-> rows, totals |-> tot, raised |-> FALSE]
    ELSE LET pv   == Head(names)
             used == UsedSize(m[pv].segments)
             free == FreeSize(m[pv].segments)
             row  == [pv |-> pv, size |-> m[pv].size, used |-> used, free |-> free]
         IN IF DivRaises(m[pv].size)
            THEN [rows |-> Append(rows, row), totals |-> tot, raised |-> TRUE]
            ELSE SummaryLoop(m, Tail(names), Append(rows, row),
                             [size |-> tot.size + m[pv].size,
                              used |-> tot.used + used,
                              free |-> tot.free + free])

\* Lines 619-662.
PrintSummary ==
    /\ pc = "summary"
    /\ LET res == SummaryLoop(pvs, Sorted(DOMAIN pvs), << >>,
                              [size |-> 0, used |-> 0, free |-> 0])
       IN IF res.raised
          THEN /\ summary' = [rows |-> res.rows, totals |-> << >>, complete |-> FALSE]
               /\ Raise("ZeroDivisionError", "summary")
          ELSE IF DivRaises(res.totals.size)
          THEN /\ summary' = [rows |-> res.rows, totals |-> <<res.totals>>, complete |-> FALSE]
               /\ Raise("ZeroDivisionError", "summary")
          ELSE /\ summary' = [rows |-> res.rows, totals |-> <<res.totals>>, complete |-> TRUE]
               /\ pc' = "render"
               /\ UNCHANGED <<exc, exc_at>>
    /\ UNCHANGED <<mode, scanVars, lv_colors, image_bars, overview_data,
                   segments_data, artifact, reports>>

(***************************************************************************)
(* assign_colors.                                                          *)
(***************************************************************************)
\* The lv tags of a segment list.
LvsOf(segs) == {segs[k].lv : k \in 1..Len(segs)}

\* Lines 95-98: all_lvs.
AllLvs(m) == UNION {LvsOf(m[pv].segments) : pv \in DOMAIN m}

RECURSIVE ColorLoopCountsFree(_, _, _)
\* ColorLoop with the palette index advanced for 'FREE' too.
ColorLoopCountsFree(names, colors, color_idx) ==
    IF names = << >> THEN colors
    ELSE IF Head(names) = "FREE"
    THEN ColorLoopCountsFree(Tail(names), Put(colors, "FREE", FreeColor), color_idx + 1)
    ELSE ColorLoopCountsFree(Tail(names),
                             Put(colors, Head(names),
                                 color_palette[(color_idx % Len(color_palette)) + 1]),
                             color_idx + 1)

RECURSIVE ColorLoop(_, _, _)
\* Lines 100-106 over the names still to colour.
ColorLoop(names, colors, color_idx) ==
    IF names = << >> THEN colors
    ELSE IF Head(names) = "FREE"
    THEN ColorLoop(Tail(names), Put(colors, "FREE", FreeColor), color_idx)
    ELSE ColorLoop(Tail(names),
                   Put(colors, Head(names),
                       color_palette[(color_idx % Len(color_palette)) + 1]),
                   color_idx + 1)

\* assign_colors(pvs) on an analyzer whose lv_colors is colors.
AssignColors(m, colors) == ColorLoop(Sorted(AllLvs(m)), colors, 0)

(***************************************************************************)
(* The renderers.                                                          *)
(***************************************************************************)
\* lv_sizes of one PV: the total size of the segments tagged lv (0 if none).
LvSize(segs, lv) ==
    LET Mine(seg) == seg.lv = lv IN SumSizes(SelectSeq(segs, Mine))

\* Lines 128-161: the ax.bar calls in order, each with its label's tag and
\* one value per PV in sorted-name order.
PlotPvOverview(m) ==
    LET pv_names == Sorted(DOMAIN m)
        keys     == IF pv_names = << >> THEN {} ELSE AllLvs(m)
        Bar(lv)  == [lv |-> lv,
                     values |-> [k \in 1..Len(pv_names) |-> LvSize(m[pv_names[k]].segments, lv)]]
        owned    == Sorted(keys \ {"FREE"})
    IN [k \in 1..Len(owned) |-> Bar(owned[k])]
       \o (IF "FREE" \in keys THEN <<Bar("FREE")>> ELSE << >>)

\* Lines 216-240: overview_data, which the page's script stacks in list order
\* (lines 427-441).
OverviewData(m, colors) ==
    LET pv_names == Sorted(DOMAIN m)
        Entry(pv) ==
            LET keys == Sorted(LvsOf(m[pv].segments))
            IN [pv |-> LastComponent(pv),
                total_size |-> m[pv].size,
                segments |-> [k \in 1..Len(keys) |->
                                 [lv |-> keys[k],
                                  size |-> LvSize(m[pv].segments, keys[k]),
                                  color |-> colors[keys[k]]]]]
    IN [k \in 1..Len(pv_names) |-> Entry(pv_names[k])]

RECURSIVE InsertByStart(_, _)
\* seg placed in the start-sorted q after every element whose start is <= its own.
InsertByStart(q, seg) ==
    IF q = << >> THEN <<seg>>
    ELSE IF Head(q).start <= seg.start THEN <<Head(q)>> \o InsertByStart(Tail(q), seg)
    ELSE <<seg>> \o q

RECURSIVE SortByStart(_)
\* sorted(segments, key=lambda x: x['start']): ascending and stable.
SortByStart(segs) ==
    IF segs = << >> THEN << >>
    ELSE InsertByStart(SortByStart(SubSeq(segs, 1, Len(segs) - 1)), segs[Len(segs)])

\* Lines 178-199 and 243-260: per PV in descending name order, its segments in
\* start order with their colours.
SegmentsData(m, colors) ==
    LET pv_names == Reversed(Sorted(DOMAIN m))
        Row(pv) ==
            LET q == SortByStart(m[pv].segments)
            IN [pv |-> LastComponent(pv),
                segments |-> [k \in 1..Len(q) |->
                                 [lv |-> q[k].lv, size |-> q[k].size,
                                  color |-> colors[q[k].lv]]]]
    IN [k \in 1..Len(pv_names) |-> Row(pv_names[k])]

\* What writing the artifact (open, savefig) or showing the figure can raise.
RenderErrors == {"OSError", "FileNotFoundError"}

\* The entry point's html_mode argument is first read at lines 678 and 720,
\* where it selects the renderer: each render action below is the branch for
\* one value of it.

\* RenderImage called ahead of print_summary.
RenderImageBeforeSummary ==
    /\ pc = "summary"
    /\ lv_colors' = AssignColors(pvs, lv_colors)
    /\ image_bars' = PlotPvOverview(pvs)
    /\ segments_data' = SegmentsData(pvs, lv_colors')
    /\ artifact' = "png"
    /\ pc' = "done"
    /\ UNCHANGED <<mode, scanVars, exc, exc_at, summary, overview_data, reports>>

\* html_mode is False: create_visualization, plt.savefig and plt.show succeed.
RenderImage ==
    /\ pc = "render"
    /\ lv_colors' = AssignColors(pvs, lv_colors)
    /\ image_bars' = PlotPvOverview(pvs)
    /\ segments_data' = SegmentsData(pvs, lv_colors')
    /\ artifact' = "png"
    /\ pc' = "done"
    /\ UNCHANGED <<mode, scanVars, exc, exc_at, summary, overview_data, reports>>

\* html_mode is False: the figure is drawn and plt.savefig raises (nothing written) or plt.show
\* raises (the image is written).
RenderImageFails ==
    /\ pc = "render"
    /\ lv_colors' = AssignColors(pvs, lv_colors)
    /\ image_bars' = PlotPvOverview(pvs)
    /\ segments_data' = SegmentsData(pvs, lv_colors')
    /\ \E a \in {"none", "png"} : artifact' = a
    /\ \E e \in RenderErrors : Raise(e, "render")
    /\ UNCHANGED <<mode, scanVars, summary, overview_data, reports>>

\* html_mode is True: create_html_visualization succeeds.
RenderHtml ==
    /\ pc = "render"
    /\ lv_colors' = AssignColors(pvs, lv_colors)
    /\ overview_data' = OverviewData(pvs, lv_colors')
    /\ segments_data' = SegmentsData(pvs, lv_colors')
    /\ artifact' = "html"
    /\ pc' = "done"
    /\ UNCHANGED <<mode, scanVars, exc, exc_at, summary, image_bars, reports>>

\* html_mode is True: open(output_file, 'w') raises: the data is prepared, nothing is written.
RenderHtmlFails ==
    /\ pc = "render"
    /\ lv_colors' = AssignColors(pvs, lv_colors)
    /\ overview_data' = OverviewData(pvs, lv_colors')
    /\ segments_data' = SegmentsData(pvs, lv_colors')
    /\ \E e \in RenderErrors : Raise(e, "render")
    /\ UNCHANGED <<mode, scanVars, summary, image_bars, artifact, reports>>

(***************************************************************************)
(* The except clauses of the entry points.                                 *)
(***************************************************************************)
\* The base class of an exception class.
Base(c) ==
    CASE c = "FileNotFoundError" -> "OSError"
      [] c = "PermissionError" -> "OSError"
      [] c = "OSError" -> "Exception"
      [] c = "IndexError" -> "LookupError"
      [] c = "LookupError" -> "Exception"
      [] c = "ValueError" -> "Exception"
      [] c = "ZeroDivisionError" -> "ArithmeticError"
      [] c = "ArithmeticError" -> "Exception"
      [] c = "CalledProcessError" -> "SubprocessError"
      [] c = "SubprocessError" -> "Exception"
      [] OTHER -> "BaseException"

RECURSIVE IsInstance(_, _)
\* An exception of class c is caught by `except cls`.
IsInstance(c, cls) == c = cls \/ (c # "BaseException" /\ IsInstance(Base(c), cls))

\* ExceptClauses without the closing `except Exception` clauses.
ExceptClausesNoGeneric(m) ==
    IF m = "file"
    THEN << [cls |-> "FileNotFoundError", report |-> "file-not-found"] >>
    ELSE << [cls |-> "CalledProcessError", report |-> "command-error"],
            [cls |-> "FileNotFoundError", report |-> "command-not-found"] >>

\* The except clauses in source order, each with the category it reports.
ExceptClauses(m) ==
    IF m = "file"
    THEN << [cls |-> "FileNotFoundError", report |-> "file-not-found"],
            [cls |-> "Exception", report |-> "analysis-error"] >>
    ELSE << [cls |-> "CalledProcessError", report |-> "command-error"],
            [cls |-> "FileNotFoundError", report |-> "command-not-found"],
            [cls |-> "Exception", report |-> "error"] >>

RECURSIVE Dispatch(_, _)
\* The report of the first clause that catches c; "escaped" when none does.
Dispatch(clauses, c) ==
    IF clauses = << >> THEN "escaped"
    ELSE IF IsInstance(c, Head(clauses).cls) THEN Head(clauses).report
    ELSE Dispatch(Tail(clauses), c)

\* Lines 697-703 and 732-738.
Handle ==
    /\ pc = "handler"
    /\ LET r == Dispatch(ExceptClauses(mode), exc) IN
       IF r = "escaped"
       THEN pc' = "escaped" /\ UNCHANGED reports
       ELSE pc' = "done" /\ reports' = Append(reports, r)
    /\ UNCHANGED <<mode, scanVars, exc, exc_at, outVars>>

(***************************************************************************)
(* The specification.                                                      *)
(***************************************************************************)
Next ==
    \/ ReadFile
    \/ ReadFileFails
    \/ RunCommand
    \/ RunCommandFails
    \/ ParseBegin
    \/ PVNameLine
    \/ VGNameLine
    \/ PVSizeLine
    \/ PESizeLine
    \/ FreePELine
    \/ TotalPELine
    \/ MarkerLine
    \/ ExtentLine
    \/ SkipLine
    \/ ParseReturn
    \/ PrintSummary
    \/ RenderImage
    \/ RenderImageFails
    \/ RenderHtml
    \/ RenderHtmlFails
    \/ Handle

Spec == Init /\ [][Next]_vars

(***************************************************************************)
(* A second specification for the colour assigner and the renderers, whose *)
(* cases need more logical volumes than a text of MaxLines lines names:    *)
(* the model parse_pvdisplay returned is drawn directly, and the entry     *)
(* point goes on from there (print_summary, then a renderer).              *)
(***************************************************************************)
\* The k-th filler logical-volume name: lv01, lv02, ...
FillName(k) == "lv" \o Ch(Digits, (k \div 10) + 1) \o Ch(Digits, (k % 10) + 1)

\* Names that sort before, at and after the free-space tag.
SpecialNames == {"Data", "FREE", "UNKNOWN"}

\* The owner tags of a drawn model, in the order its extent ranges list them:
\* ascending (order 1) or descending (order 2 and 3).
DrawnTags(k, extra, order) ==
    LET asc == Sorted({FillName(j) : j \in 1..k} \cup extra)
    IN IF order = 1 THEN asc ELSE Reversed(asc)

\* The segments parse_pvdisplay builds for consecutive two-extent ranges
\* owned by tags, at the default PE size.
DrawnSegments(tags) ==
    [j \in 1..Len(tags) |->
        Segment([start |-> 2 * (j - 1), end |-> 2 * j - 1], tags[j], DefaultPeSize)]

\* The PV record of a well-formed text for these segments.
DrawnPV(segs) ==
    [vg |-> "vg0", size |-> 2 * DefaultPeSize * (Len(segs) + 1), free_pe |-> 0,
     total_pe |-> 2 * Len(segs), pe_size |-> DefaultPeSize, segments |-> segs]

\* The drawn model: one PV holding every range (order 1 and 2), or two PVs
\* sharing them out alternately (order 3).
DrawnModel(k, extra, order) ==
    LET tags == DrawnTags(k, extra, order)
        Odd(q)  == [j \in 1..((Len(q) + 1) \div 2) |-> q[2 * j - 1]]
        Even(q) == [j \in 1..(Len(q) \div 2) |-> q[2 * j]]
    IN IF order = 3
       THEN Put(Put(EmptyDict, "/dev/sda", DrawnPV(DrawnSegments(Odd(tags)))),
                "/dev/sdb", DrawnPV(DrawnSegments(Even(tags))))
       ELSE Put(EmptyDict, "/dev/sda", DrawnPV(DrawnSegments(tags)))

\* Number of lines of the well-formed text of a model: per PV its name, size
\* and marker lines, per segment its range line and its owner line.
RECURSIVE TextLines(_, _)
TextLines(m, names) ==
    IF names = << >> THEN 0
    ELSE 3 + 2 * Len(m[Head(names)].segments) + TextLines(m, Tail(names))

\* The state in which parse_pvdisplay has just returned a drawn model.
InitDrawn ==
    /\ pc = "summary"
    /\ mode \in {"file", "live"}
    /\ \E k \in 0..MaxFill, extra \in SUBSET SpecialNames, order \in 1..3 :
          pvs = DrawnModel(k, extra, order)
    /\ i = TextLines(pvs, Sorted(DOMAIN pvs))
    /\ line = EOF /\ next_line = EOF
    /\ current_pv = Sorted(DOMAIN pvs)[Len(Sorted(DOMAIN pvs))]
    /\ in_segments = TRUE
    /\ exc = "None" /\ exc_at = "none"
    /\ summary = NoSummary
    /\ lv_colors = EmptyDict
    /\ image_bars = << >>
    /\ overview_data = << >>
    /\ segments_data = << >>
    /\ artifact = "none"
    /\ reports = << >>

NextDrawn ==
    \/ PrintSummary
    \/ RenderImage
    \/ RenderImageFails
    \/ RenderHtml
    \/ RenderHtmlFails
    \/ Handle

SpecDrawn == InitDrawn /\ [][NextDrawn]_vars

(***************************************************************************)
(* Properties.                                                             *)
(***************************************************************************)
\* parse_pvdisplay has returned its model (to the entry point) in this run.
Returned == pc \notin {"start", "parse", "scan"} /\ exc_at \notin {"read", "parse"}

\* This step of the scan appends a segment to the current PV.
Appended ==
    /\ pc = "scan"
    /\ current_pv # None
    /\ current_pv' = current_pv
    /\ current_pv \in DOMAIN pvs
    /\ Len(pvs'[current_pv].segments) = Len(pvs[current_pv].segments) + 1

\* The segment it appends.
NewSeg == pvs'[current_pv].segments[Len(pvs'[current_pv].segments)]

\* Number of extents of a segment.
Extents(seg) == seg.end - seg.start + 1

\* C1: parse_pvdisplay never raises an exception, whatever the input text:
\* malformed lines are skipped or tagged and a model is still returned.
C1_ParseNeverRaises == exc_at # "parse"

\* tag is the final '/'-separated component of path.
IsFinalComponent(tag, path) ==
    /\ ~Contains(tag, "/")
    /\ \/ path = tag
       \/ /\ Len(path) > Len(tag)
          /\ SubSeq(path, Len(path) - Len(tag), Len(path)) = "/" \o tag

\* C2: when an extent-range line produces a segment and a line follows it,
\* the segment's tag is decided by that following line alone: 'FREE' if it
\* contains the free-space marker, otherwise the final path component of its
\* logical-volume path if it is a 'Logical volume' line, otherwise 'UNKNOWN'.
C2_OwnerFromNextLine ==
    [][(Appended /\ next_line # EOF) =>
          IF Contains(next_line, "FREE") THEN NewSeg.lv = "FREE"
          ELSE IF Contains(next_line, "Logical volume")
               THEN IsFinalComponent(NewSeg.lv, Split(next_line)[3])
               ELSE NewSeg.lv = "UNKNOWN"]_vars

\* A segment was just tagged from a logical-volume line with a path prefix:
\* the scan now stands on that line.
C2_Witness ==
    /\ pc = "scan"
    /\ line = "Logical volume /dev/vg0/lv-root"
    /\ current_pv \in DOMAIN pvs
    /\ pvs[current_pv].segments # << >>
    /\ pvs[current_pv].segments[Len(pvs[current_pv].segments)].lv = "lv-root"

\* C3 as stated: in the returned model every segment's size is its extent
\* count times the final pe_size of its PV, for any order of 'PE Size' lines
\* and extent-range lines.
C3_SizeFromFinalPeSize ==
    Returned =>
        \A pv \in DOMAIN pvs : \A k \in 1..Len(pvs[pv].segments) :
            pvs[pv].segments[k].size = Extents(pvs[pv].segments[k]) * pvs[pv].pe_size

\* C3 amended: a segment's size is its extent count times the pe_size its PV
\* holds when its extent-range line is scanned, and no later line (a later
\* 'PE Size' line included) resizes a segment already in the list.
C3_SizeFromPeSizeAtScan ==
    [][/\ Appended => NewSeg.size = Extents(NewSeg) * pvs[current_pv].pe_size
       /\ \A pv \in DOMAIN pvs \cap DOMAIN pvs' :
             \A k \in 1..Len(pvs[pv].segments) :
                 k <= Len(pvs'[pv].segments) =>
                     pvs'[pv].segments[k].size = pvs[pv].segments[k].size]_vars

\* A segment sized with a PE size read from the text, not the default.
C3_Witness ==
    /\ Returned
    /\ \E pv \in DOMAIN pvs :
          /\ pvs[pv].pe_size = 400
          /\ \E k \in 1..Len(pvs[pv].segments) : pvs[pv].segments[k].size = 800

\* The segments of PV record r cover the extents 0..T-1 exactly: each lies
\* inside, and every extent is in exactly one of them.
CoversExactly(r) ==
    /\ \A k \in 1..Len(r.segments) :
          /\ 0 <= r.segments[k].start
          /\ r.segments[k].start <= r.segments[k].end
          /\ r.segments[k].end <= r.total_pe - 1
    /\ \A e \in 0..(r.total_pe - 1) :
          Cardinality({k \in 1..Len(r.segments) :
                          r.segments[k].start <= e /\ e <= r.segments[k].end}) = 1

\* C4 as stated: for a PV with total extents T and extent size E whose
\* segments cover [0, T-1] exactly, the summary's used plus free is T x E.
C4_UsedPlusFree ==
    \A j \in 1..Len(summary.rows) :
        LET r == pvs[summary.rows[j].pv] IN
        CoversExactly(r) =>
            summary.rows[j].used + summary.rows[j].free = r.total_pe * r.pe_size

\* Every segment of PV record r was sized with r's final extent size.
SizedWithFinal(r) ==
    \A k \in 1..Len(r.segments) : r.segments[k].size = Extents(r.segments[k]) * r.pe_size

\* C4 amended: the same, for a PV all of whose segments were sized with its
\* final extent size E (no 'PE Size' line changed it after a range line).
C4_UsedPlusFreeSameE ==
    \A j \in 1..Len(summary.rows) :
        LET r == pvs[summary.rows[j].pv] IN
        (CoversExactly(r) /\ SizedWithFinal(r)) =>
            summary.rows[j].used + summary.rows[j].free = r.total_pe * r.pe_size

\* A completed summary of a PV covered exactly by a used and a free segment.
C4_Witness ==
    /\ summary.complete
    /\ \E j \in 1..Len(summary.rows) :
          /\ pvs[summary.rows[j].pv].total_pe = 4
          /\ CoversExactly(pvs[summary.rows[j].pv])
          /\ SizedWithFinal(pvs[summary.rows[j].pv])
          /\ summary.rows[j].used > 0
          /\ summary.rows[j].free > 0

\* C5: print_summary completes without raising when a PV's capacity is 0
\* and when the global total capacity is 0 (an empty model included).
C5_SummaryGuardsZero ==
    (/\ summary # NoSummary
     /\ \/ DOMAIN pvs = {}
        \/ \E pv \in DOMAIN pvs : pvs[pv].size = 0)
    => summary.complete

\* assign_colors has run in this state.
Coloured == pc \in {"handler", "done"} /\ (exc_at = "render" \/ artifact # "none")

\* Number of non-FREE names of the model that sort before lv.
RankOf(lv) == Cardinality({x \in AllLvs(pvs) \ {"FREE"} : StrLess(x, lv)})

\* C6: the colours are a function of the set of owner names alone: 'FREE'
\* gets '#E8E8E8' and takes no palette slot, and the k-th (0-based) non-FREE
\* name in sorted order gets palette[k mod palette length].
C6_ColoursBySortedRank ==
    Coloured =>
        /\ DOMAIN lv_colors = AllLvs(pvs)
        /\ \A lv \in AllLvs(pvs) :
              lv_colors[lv] = IF lv = "FREE" THEN "#E8E8E8"
                              ELSE color_palette[(RankOf(lv) % Len(color_palette)) + 1]

\* More names than the palette holds, free space and a name sorting before
\* 'FREE' among them, listed in descending order.
C6_Witness ==
    /\ Coloured
    /\ Cardinality(AllLvs(pvs)) > 17
    /\ {"FREE", "Data"} \subseteq AllLvs(pvs)
    /\ \E pv \in DOMAIN pvs :
          Len(pvs[pv].segments) > 1 /\ pvs[pv].segments[1].lv = "lv16"

\* C7: after assign_colors, two distinct logical-volume names of the model
\* never have the same colour.
C7_UniqueColours ==
    Coloured =>
        \A a, b \in DOMAIN lv_colors \ {"FREE"} : a # b => lv_colors[a] # lv_colors[b]

\* q holds exactly one bar per name of S.
OneBarPer(q, S) ==
    /\ {q[k].lv : k \in 1..Len(q)} = S
    /\ Len(q) = Cardinality(S)

\* In q the free-space bar, if any, comes after every other bar.
FreeLast(q) == \A k \in 1..Len(q) : q[k].lv = "FREE" => k = Len(q)

\* C8: in the stacked-bar overview of either renderer each PV has one bar
\* segment per owner name, carrying that owner's total allocation on the PV,
\* and the free-space segment is the last of the stack.
C8_FreeSpaceLast ==
    LET pv_names == Sorted(DOMAIN pvs) IN
    /\ artifact = "png" =>
          /\ OneBarPer(image_bars, AllLvs(pvs))
          /\ FreeLast(image_bars)
          /\ \A k \in 1..Len(image_bars) : \A j \in 1..Len(pv_names) :
                image_bars[k].values[j] = LvSize(pvs[pv_names[j]].segments, image_bars[k].lv)
    /\ artifact = "html" =>
          /\ Len(overview_data) = Len(pv_names)
          /\ \A j \in 1..Len(overview_data) :
                LET segs == pvs[pv_names[j]].segments
                    q == overview_data[j].segments
                IN /\ OneBarPer(q, LvsOf(segs))
                   /\ FreeLast(q)
                   /\ \A k \in 1..Len(q) : q[k].size = LvSize(segs, q[k].lv)

\* The category the claim gives an exception of class c in entry point m.
ClaimedReport(m, c) ==
    IF m = "file"
    THEN (IF c = "FileNotFoundError" THEN "file-not-found" ELSE "analysis-error")
    ELSE (IF c = "CalledProcessError" THEN "command-error"
          ELSE IF c = "FileNotFoundError" THEN "command-not-found"
          ELSE "error")

Overlap(a, b) == a.start <= b.end /\ b.start <= a.end

\* C10 as stated: in every returned model no two segments of one PV share an
\* extent index.
C10_NoOverlap ==
    Returned =>
        \A pv \in DOMAIN pvs : \A j, k \in 1..Len(pvs[pv].segments) :
            j # k => ~Overlap(pvs[pv].segments[j], pvs[pv].segments[k])

\* The line reads 'Physical extent <a> to <b>' for the numbers a and b.
ReadsRange(l, a, b) ==
    LET txt == "Physical extent " \o ToString(a) \o " to " \o ToString(b)
    IN \E k \in 1..Len(l) :
          /\ StartsWith(SubSeq(l, k, Len(l)), txt)
          /\ (k + Len(txt) <= Len(l) => ~IsDigit(Ch(l, k + Len(txt))))

\* C10 amended: the parser stores each range as its line gives it and only
\* appends: a segment's [start, end] is the range read from its extent-range
\* line, and the segments already listed for a PV keep their ranges while the
\* PV is not named again.  Segments overlap exactly when the ranges given in
\* the text do.
C10_RangesAsRead ==
    [][/\ Appended => ReadsRange(line, NewSeg.start, NewSeg.end)
       /\ \A pv \in DOMAIN pvs :
             (pc = "scan" /\ ~StartsWith(Strip(line), "PV Name")) =>
                 /\ pv \in DOMAIN pvs'
                 /\ Len(pvs'[pv].segments) >= Len(pvs[pv].segments)
                 /\ \A k \in 1..Len(pvs[pv].segments) :
                       /\ pvs'[pv].segments[k].start = pvs[pv].segments[k].start
                       /\ pvs'[pv].segments[k].end = pvs[pv].segments[k].end]_vars

\* A returned model with the two disjoint ranges of its text, in text order.
C10_Witness ==
    /\ Returned
    /\ \E pv \in DOMAIN pvs :
          /\ Len(pvs[pv].segments) = 2
          /\ pvs[pv].segments[1].start = 0 /\ pvs[pv].segments[1].end = 1
          /\ pvs[pv].segments[2].start = 2 /\ pvs[pv].segments[2].end = 3

\* The stripped line s is an extent-range line.
IsRangeLine(s) == StartsWith(s, "Physical extent") /\ ExtentPos(s) # 0

\* The scan processes its current line in this step.
ScanStep == pc = "scan" /\ line # EOF

\* current_pv and in_segments record what the text read so far says: nothing
\* at the start; a 'PV Name' line makes its PV the most recently named one
\* with no marker after it; a marker line is a marker seen after it; no other
\* line changes either.
TracksContext ==
    /\ pc = "parse" => (current_pv' = None /\ ~in_segments')
    /\ (ScanStep /\ pc' = "scan") =>
          IF StartsWith(Strip(line), "PV Name")
          THEN current_pv' = Split(Strip(line))[3] /\ ~in_segments'
          ELSE IF StartsWith(Strip(line), "--- Physical Segments ---")
               THEN current_pv' = current_pv /\ in_segments'
               ELSE current_pv' = current_pv /\ in_segments' = in_segments

\* A PV has been named and the marker seen after its 'PV Name' line.
InContext == current_pv # None /\ in_segments

\* No segment list but the current PV's on an extent-range line gets a
\* segment ('PV Name' starts the named PV's list afresh), and a list that
\* grows keeps what it held, in order.
OnlyCurrentGrows ==
    ScanStep =>
        /\ \A pv \in DOMAIN pvs :
              /\ pv \in DOMAIN pvs'
              /\ \/ pvs'[pv].segments = pvs[pv].segments
                 \/ pv = current_pv /\ IsRangeLine(Strip(line)) /\ Appended
                 \/ /\ StartsWith(Strip(line), "PV Name")
                    /\ pv = current_pv'
                    /\ pvs'[pv].segments = << >>
        /\ \A pv \in DOMAIN pvs' \ DOMAIN pvs :
              pv = current_pv' /\ pvs'[pv].segments = << >>
        /\ Appended =>
              SubSeq(pvs'[current_pv].segments, 1, Len(pvs[current_pv].segments))
                  = pvs[current_pv].segments

\* C11: while scanning, an extent-range line produces a segment if and only
\* if a 'PV Name' line has been seen and the '--- Physical Segments ---'
\* marker has been seen after the most recent one; the segment goes to the
\* end of the list of that most recently named PV and no other list changes.
C11_SegmentIffInContext ==
    [][/\ TracksContext
       /\ (ScanStep /\ IsRangeLine(Strip(line))) => (InContext <=> Appended)
       /\ OnlyCurrentGrows]_vars

\* The same for the steps after which the scan goes on: whenever the scan of
\* an extent-range line does not raise, it appends exactly in context.
ScanAppendsInContext ==
    [][/\ TracksContext
       /\ (ScanStep /\ IsRangeLine(Strip(line)) /\ pc' = "scan")
              => (InContext <=> Appended)
       /\ OnlyCurrentGrows]_vars

\* The scan of an extent-range line in context was ended by the IndexError of
\* its owner line: the current PV has no segment for it.
OwnerRaisedInContext ==
    /\ pc = "handler" /\ exc_at = "parse"
    /\ InContext
    /\ IsRangeLine(Strip(line))
    /\ Strip(next_line) = "Logical volume"

RECURSIVE SumField(_, _)
\* The sum of field f over the records of q.
SumField(q, f) == IF q = << >> THEN 0 ELSE Head(q)[f] + SumField(Tail(q), f)

\* The sizes of the segments of segs with the indices in S, added up.
RECURSIVE SumOver(_, _)
SumOver(segs, S) ==
    IF S = {} THEN 0
    ELSE LET k == CHOOSE x \in S : TRUE IN segs[k].size + SumOver(segs, S \ {k})

\* The summary printed is the one the claim describes: one row per PV in
\* ascending name order, each with its used and free sums, and the totals
\* of the rows' figures.
SummaryAsClaimed ==
    LET rows == summary.rows IN
    /\ {rows[j].pv : j \in 1..Len(rows)} = DOMAIN pvs
    /\ \A j, k \in 1..Len(rows) : j < k => StrLess(rows[j].pv, rows[k].pv)
    /\ \A j \in 1..Len(rows) :
          LET segs == pvs[rows[j].pv].segments IN
          /\ rows[j].size = pvs[rows[j].pv].size
          /\ rows[j].used = SumOver(segs, {k \in 1..Len(segs) : segs[k].lv # "FREE"})
          /\ rows[j].free = SumOver(segs, {k \in 1..Len(segs) : segs[k].lv = "FREE"})
          /\ rows[j].used + rows[j].free = SumOver(segs, 1..Len(segs))
    /\ summary.totals = <<[size |-> SumField(rows, "size"),
                           used |-> SumField(rows, "used"),
                           free |-> SumField(rows, "free")]>>

\* C12: print_summary visits every PV exactly once in ascending name order;
\* a PV's used figure is the sum of its segments not tagged 'FREE' ('UNKNOWN'
\* ones included), its free figure the sum of its 'FREE' segments, so both
\* add up to the sum of all its segments; the global figures are the sums of
\* the per-PV capacity, used and free figures.
C12_SummaryFigures == summary # NoSummary => SummaryAsClaimed

\* The same for the calls of print_summary that return.
CompletedSummaryFigures == summary.complete => SummaryAsClaimed

\* A summary that returned after visiting two PVs.
TwoVolumeSummary == summary.complete /\ Len(summary.rows) = 2

\* A summary that returned with an 'UNKNOWN' segment counted as used next to
\* a free one.
UnknownCountedUsed ==
    /\ summary.complete
    /\ \E j \in 1..Len(summary.rows) :
          /\ summary.rows[j].used > 0 /\ summary.rows[j].free > 0
          /\ \E k \in 1..Len(pvs[summary.rows[j].pv].segments) :
                pvs[summary.rows[j].pv].segments[k].lv = "UNKNOWN"

\* print_summary raised at the first of two PVs: the second was not visited
\* and no global figure was printed.
SummaryStoppedEarly ==
    /\ exc_at = "summary"
    /\ Cardinality(DOMAIN pvs) = 2
    /\ Len(summary.rows) = 1
    /\ summary.totals = << >>

\* The scan makes the looked-at line the current one and counts it.
Advances == pc' = "scan" /\ i' = i + 1 /\ line' = next_line

\* An extent-range line in context with an extent-range line after it.
AtRangePair ==
    /\ ScanStep /\ InContext
    /\ IsRangeLine(Strip(line))
    /\ next_line # EOF /\ IsRangeLine(Strip(next_line))

\* What the claim says of one step of the parser: the scan starts at line 0,
\* every line that is current is processed and followed by the line that was
\* looked at, the scan returns when no line is left, and the first line of a
\* pair of extent-range lines gets an 'UNKNOWN' segment while the second
\* becomes current in the same context (and gets its own).
ScansEachLineOnce ==
    /\ pc = "parse" => i' = 0
    /\ ScanStep => Advances
    /\ (pc = "scan" /\ line = EOF) => (pc' = "summary" /\ UNCHANGED scanVars)
    /\ (ScanStep /\ InContext /\ IsRangeLine(Strip(line))) => Appended
    /\ AtRangePair =>
          /\ NewSeg.lv = "UNKNOWN"
          /\ current_pv' = current_pv /\ in_segments'

\* C13: the scan terminates after processing each input line exactly once,
\* in order, as the current line: the lookahead reads line i+1 without
\* advancing the index, so the looked-at line is itself processed next, and
\* an extent-range line followed by another one yields two segments, the
\* first tagged 'UNKNOWN'.
C13_EachLineOnce == [][ScansEachLineOnce]_vars

\* The scan is ended by an exception of its current line.
ScanRaises == pc' = "handler" /\ exc_at' = "parse" /\ UNCHANGED scanVars

\* The same for the steps that do not raise: a step of the scan either
\* raises, leaving the index where it is, or does what the claim says.
EachLineOnceUnlessRaised == [][(ScanStep /\ ScanRaises) \/ ScansEachLineOnce]_vars

\* A text of four lines read to its end with two segments, the first tagged
\* 'UNKNOWN': its last two lines are extent-range lines.
TwoRangesTwoSegments ==
    /\ pc = "scan" /\ line = EOF /\ i = 4
    /\ current_pv \in DOMAIN pvs
    /\ Len(pvs[current_pv].segments) = 2
    /\ pvs[current_pv].segments[1].lv = "UNKNOWN"

\* The scan was ended at a line with a line after it that never became the
\* current one.
LinesLeftUnscanned ==
    /\ pc = "handler" /\ exc_at = "parse"
    /\ next_line # EOF

\* C14: an extent-range line that is the last line of the input, scanned
\* where extent-range lines produce segments (a PV named, the marker seen),
\* still produces its segment, and the segment is tagged 'FREE'.
C14_LastRangeLineFree ==
    [][(ScanStep /\ InContext /\ IsRangeLine(Strip(line)) /\ next_line = EOF)
          => (Appended /\ NewSeg.lv = "FREE" /\ Advances)]_vars

\* A text of three lines read to its end with one segment, tagged 'FREE':
\* a 'PV Name' line, the marker and, as the last line, an extent-range line.
C14_Witness ==
    /\ pc = "scan" /\ line = EOF /\ i = 3
    /\ current_pv \in DOMAIN pvs
    /\ Len(pvs[current_pv].segments) = 1
    /\ pvs[current_pv].segments[1].lv = "FREE"

\* The order of the steps of an entry point: read or execute, parse, print
\* the summary, render; any of them may raise into the except clauses.
StepOrder ==
    {<<"start", "parse">>, <<"parse", "scan">>, <<"scan", "summary">>,
     <<"summary", "render">>, <<"render", "done">>,
     <<"start", "handler">>, <<"scan", "handler">>, <<"summary", "handler">>,
     <<"render", "handler">>, <<"handler", "done">>, <<"handler", "escaped">>}

\* C15: in analyze_from_file and in run_live_analysis the steps run in the
\* order read/execute, parse, print summary, render: an artifact is written
\* only by the render step, after print_summary has completed without
\* raising, so whenever reading, parsing or the summary raises, no artifact
\* is written in that invocation.
C15_ArtifactAfterSummary ==
    [][/\ pc' # pc => <<pc, pc'>> \in StepOrder
       /\ summary' # summary => (pc = "summary" /\ Returned)
       /\ artifact' # artifact =>
             (pc = "render" /\ summary.complete /\ exc = "None")
       /\ exc_at' \in {"read", "parse", "summary"} => artifact' = "none"]_vars

\* run_live_analysis has written the image after a completed summary.
C15_Witness ==
    /\ pc = "done"
    /\ mode = "live"
    /\ artifact = "png"
    /\ summary.complete
    /\ exc = "None"

====
